---- MODULE Spec2Model ----
(***************************************************************************)
(* State-machine model of src/SPMEV.js: the module-level session state,    *)
(* the upload and real-time classification paths, the capture lifecycle    *)
(* and the playback controls, with every suspension point (fetch,          *)
(* response.json, getUserMedia, dataavailable, media events) as a separate *)
(* step of the single-threaded event loop.                                 *)
(***************************************************************************)
EXTENDS Integers, Sequences, FiniteSets, TLC

\* ---------------------------------------------------------------- bounds
\* Classification requests (uploads and chunks together) issued in one run.
MaxRequests == 2
\* getUserMedia calls (starts of real-time mode) in one run.
MaxStarts == 2

\* ------------------------------------------------------------ value sets
\* JavaScript null for string-valued and for object-valued variables.
Null == "null"
NullObj == [null |-> TRUE]

\* Files the user can select or drop; NoFile is an empty FileList.
NoFile == [name |-> "", type |-> ""]
AudioFiles == {[name |-> "a.wav", type |-> "audio/wav"]}
OtherFiles == {[name |-> "notes.txt", type |-> "text/plain"]}
Files == AudioFiles \cup OtherFiles \cup {NoFile}

\* file.type.startsWith('audio/')
IsAudio(file) == file.type \in {"audio/wav"}

\* Bodies the classification endpoint can answer with (percent, summing to 100).
Responses == {[emotion |-> "happy",   probabilities |-> [happy |-> 80, neutral |-> 20]],
              [emotion |-> "neutral", probabilities |-> [happy |-> 30, neutral |-> 70]]}

\* Text a button carries from the page markup until a handler rewrites it.
Markup == "markup"

\* Values of the volume slider, in percent (the variable starts at 1 = 100%).
Volumes == {50, 100}

\* ------------------------------------------------------------- variables
VARIABLES
    \* module-level state, lines 10-24
    detectedEmotion, probabilities, isLoading, error, audioData, fileName,
    isPlaying, volume, isMuted, emotionHistory, isRealTimeMode,
    wavesurfer, mediaRecorder,
    \* DOM elements written by the handlers, lines 27-37
    loadingIndicator, errorDisplay, resultsContainer,
    playPauseButton, muteButton, realTimeButton,
    \* platform state the handlers create and the event loop holds
    fetches,        \* classification requests in flight
    issued,         \* number of requests issued so far (issue sequence numbers)
    gumPending,     \* getUserMedia promises not yet settled
    starts,         \* getUserMedia calls made so far
    recorders,      \* every MediaRecorder created, by creation index
    players,        \* number of WaveSurfer instances created so far
    graphs,         \* analyser AudioContexts with a running draw loop
    mediaEvent,     \* play/pause notification queued for the live WaveSurfer
    lastToast,      \* the notification shown last
    \* history of the run, for stating the properties
    resolved        \* settled requests, in the order they settled

program == <<detectedEmotion, probabilities, isLoading, error, audioData, fileName,
             isPlaying, volume, isMuted, emotionHistory, isRealTimeMode,
             wavesurfer, mediaRecorder>>
dom == <<loadingIndicator, errorDisplay, resultsContainer,
         playPauseButton, muteButton, realTimeButton>>
platform == <<fetches, issued, gumPending, starts, recorders, players, graphs,
              mediaEvent, lastToast>>
vars == <<program, dom, platform, resolved>>

\* ----------------------------------------------------------------- Init
Init ==
    /\ detectedEmotion = Null
    /\ probabilities = NullObj
    /\ isLoading = FALSE
    /\ error = Null
    /\ audioData = NullObj
    /\ fileName = ""
    /\ isPlaying = FALSE
    /\ volume = 100
    /\ isMuted = FALSE
    /\ emotionHistory = <<>>
    /\ isRealTimeMode = FALSE
    /\ wavesurfer = NullObj
    /\ mediaRecorder = 0
    /\ loadingIndicator = "none"
    /\ errorDisplay = ""
    /\ resultsContainer = NullObj
    /\ playPauseButton = Markup
    /\ muteButton = Markup
    /\ realTimeButton = Markup
    /\ fetches = {}
    /\ issued = 0
    /\ gumPending = 0
    /\ starts = 0
    /\ recorders = <<>>
    /\ players = 0
    /\ graphs = {}
    /\ mediaEvent = "none"
    /\ lastToast = "none"
    /\ resolved = <<>>
\* ------------------------------------------------------- helper functions
\* A log that is assigned instead of pushed to: the new entry replaces the rest.
updateEmotionHistory_Overwrite(history, emotion) ==
    <<[time |-> Len(history) + 1, emotion |-> emotion]>>

\* updateEmotionHistory, line 317: push {time, emotion}; time is the position
\* of the push on the page's clock (one tick per push).
updateEmotionHistory(history, emotion) ==
    Append(history, [time |-> Len(history) + 1, emotion |-> emotion])

\* URL.createObjectURL(file), line 86: a fresh handle for each call.
createObjectURL(file, seq) == [file |-> file.name, url |-> seq]

\* initWavesurfer, lines 114-134: the instance that replaces whatever was
\* there (destroyed first); it starts paused, at full volume, unmuted.
initWavesurfer(src, id) ==
    [id |-> id, src |-> src, playing |-> FALSE, volume |-> 100, muted |-> FALSE]

\* displayResults, lines 182-233: heading, pie chart and history chart.
displayResults(emotion, probs, history) ==
    [emotion |-> emotion, probabilities |-> probs,
     history |-> [i \in DOMAIN history |-> history[i].emotion]]

\* updateUI, lines 99-111, run on the new values of the globals it reads.
updateUI(loading, err, audio, emotion, probs, history) ==
    /\ loadingIndicator' = IF loading THEN "block" ELSE "none"
    /\ errorDisplay' = IF err = Null THEN "" ELSE err
    /\ IF audio # NullObj
       THEN /\ wavesurfer' = initWavesurfer(audio, players + 1)
            /\ players' = players + 1
            /\ graphs' = graphs \cup {players + 1}
            /\ mediaEvent' = "none"
       ELSE UNCHANGED <<wavesurfer, players, graphs, mediaEvent>>
    /\ resultsContainer' = IF emotion # Null
                           THEN displayResults(emotion, probs, history)
                           ELSE resultsContainer

\* ------------------------------------------------------------ upload path
\* An upload handler without the type check of lines 60-63.
handleFileUpload_NoTypeCheck(file) ==
    IF file = NoFile
    THEN UNCHANGED vars
    ELSE /\ issued < MaxRequests
         /\ fileName' = file.name
         /\ isLoading' = TRUE
         /\ error' = Null
         /\ updateUI(TRUE, Null, audioData, detectedEmotion, probabilities,
                     emotionHistory)
         /\ issued' = issued + 1
         /\ fetches' = fetches \cup
               {[seq |-> issued + 1, origin |-> "upload", file |-> file]}
         /\ UNCHANGED <<detectedEmotion, probabilities, audioData, isPlaying,
                        volume, isMuted, emotionHistory, isRealTimeMode,
                        mediaRecorder, playPauseButton, muteButton,
                        realTimeButton, gumPending, starts, recorders,
                        lastToast, resolved>>

\* handleFileUpload, lines 50-68: up to the fetch call.  No file, or a file
\* that is not audio, returns before any state is written.
handleFileUpload(file) ==
    IF file = NoFile
    THEN UNCHANGED vars
    ELSE IF ~IsAudio(file)
    THEN /\ lastToast' = "error: Please upload an audio file"
         /\ UNCHANGED <<program, dom, fetches, issued, gumPending, starts,
                        recorders, players, graphs, mediaEvent, resolved>>
    ELSE /\ issued < MaxRequests
         /\ fileName' = file.name
         /\ isLoading' = TRUE
         /\ error' = Null
         /\ updateUI(TRUE, Null, audioData, detectedEmotion, probabilities,
                     emotionHistory)
         /\ issued' = issued + 1
         /\ fetches' = fetches \cup
               {[seq |-> issued + 1, origin |-> "upload", file |-> file]}
         /\ UNCHANGED <<detectedEmotion, probabilities, audioData, isPlaying,
                        volume, isMuted, emotionHistory, isRealTimeMode,
                        mediaRecorder, playPauseButton, muteButton,
                        realTimeButton, gumPending, starts, recorders,
                        lastToast, resolved>>
\* Requests of one origin that are in flight.
InFlight(origin) == {r \in fetches : r.origin = origin}

\* The record of a settled request.
Settled(r, ok, data) == [seq |-> r.seq, origin |-> r.origin, ok |-> ok, data |-> data]

\* A catch block that also resets the result on display.
uploadCatch_ClearsResult(r, message) ==
    /\ error' = message
    /\ lastToast' = "error: " \o message
    /\ isLoading' = FALSE
    /\ detectedEmotion' = Null
    /\ probabilities' = NullObj
    /\ updateUI(FALSE, message, audioData, Null, NullObj, emotionHistory)
    /\ fetches' = fetches \ {r}
    /\ resolved' = Append(resolved, Settled(r, FALSE, NullObj))
    /\ UNCHANGED <<audioData, fileName, isPlaying, volume, isMuted, emotionHistory,
                   isRealTimeMode, mediaRecorder, playPauseButton, muteButton,
                   realTimeButton, issued, gumPending, starts, recorders>>

\* handleFileUpload, lines 89-95: the catch block followed by the finally block.
uploadCatch(r, message) ==
    /\ error' = message
    /\ lastToast' = "error: " \o message
    /\ isLoading' = FALSE
    /\ updateUI(FALSE, message, audioData, detectedEmotion, probabilities,
                emotionHistory)
    /\ fetches' = fetches \ {r}
    /\ resolved' = Append(resolved, Settled(r, FALSE, NullObj))
    /\ UNCHANGED <<detectedEmotion, probabilities, audioData, fileName, isPlaying,
                   volume, isMuted, emotionHistory, isRealTimeMode, mediaRecorder,
                   playPauseButton, muteButton, realTimeButton, issued, gumPending,
                   starts, recorders>>

\* handleFileUpload, lines 83-88 and 92-95: the body of an ok response is
\* stored, the file becomes the playback source, the history grows, and the
\* finally block clears isLoading and refreshes the page.
uploadApply(r, data) ==
    /\ detectedEmotion' = data.emotion
    /\ probabilities' = data.probabilities
    /\ audioData' = createObjectURL(r.file, r.seq)
    /\ emotionHistory' = updateEmotionHistory(emotionHistory, data.emotion)
    /\ lastToast' = "success: Audio analysis complete"
    /\ isLoading' = FALSE
    /\ updateUI(FALSE, error, audioData', data.emotion, data.probabilities,
                emotionHistory')
    /\ fetches' = fetches \ {r}
    /\ resolved' = Append(resolved, Settled(r, TRUE, data))
    /\ UNCHANGED <<error, fileName, isPlaying, volume, isMuted, isRealTimeMode,
                   mediaRecorder, playPauseButton, muteButton, realTimeButton,
                   issued, gumPending, starts, recorders>>

\* handleFileUpload, lines 73-95: the request of an upload settles.  A rejected
\* fetch and a response that is not ok reach the catch block.  An ok response
\* suspends the handler once more at response.json(); nothing is written
\* between the two awaits, so the continuation is one step, taken when the
\* body arrives.
uploadSettles(r, outcome, data) ==
    /\ r \in InFlight("upload")
    /\ CASE outcome = "rejected" -> uploadCatch(r, "Failed to fetch")
         [] outcome = "not ok"   -> uploadCatch(r, "Failed to analyze audio")
         [] outcome = "ok"       -> uploadApply(r, data)

\* ----------------------------------------------------------- capture path
\* new MediaRecorder(stream) followed by start(1000), lines 273-275: the
\* recorder holds the granted stream, whose tracks stay live until they are
\* stopped.
NewRecorder == [state |-> "recording", stops |-> 0, streamLive |-> TRUE,
                flush |-> FALSE]

\* MediaRecorder.stop(), line 287: a recording recorder becomes inactive and
\* queues one last dataavailable event with the data gathered so far; on an
\* inactive recorder the call gathers nothing.  The stream is left as it is.
RecorderStop(rec) ==
    IF rec.state = "recording"
    THEN [rec EXCEPT !.state = "inactive", !.stops = @ + 1, !.flush = TRUE]
    ELSE [rec EXCEPT !.stops = @ + 1]

\* startRealTimeDetection, lines 268-271: up to the getUserMedia call.
startRealTimeDetection ==
    /\ starts < MaxStarts
    /\ isRealTimeMode' = TRUE
    /\ realTimeButton' = "Stop Real-Time Detection"
    /\ gumPending' = gumPending + 1
    /\ starts' = starts + 1
    /\ UNCHANGED <<detectedEmotion, probabilities, isLoading, error, audioData,
                   fileName, isPlaying, volume, isMuted, emotionHistory,
                   wavesurfer, mediaRecorder, loadingIndicator, errorDisplay,
                   resultsContainer, playPauseButton, muteButton, fetches, issued,
                   recorders, players, graphs, mediaEvent, lastToast, resolved>>

\* stopRealTimeDetection, lines 283-289.
stopRealTimeDetection ==
    /\ isRealTimeMode' = FALSE
    /\ realTimeButton' = "Start Real-Time Detection"
    /\ recorders' = IF mediaRecorder # 0
                    THEN [recorders EXCEPT ![mediaRecorder] = RecorderStop(@)]
                    ELSE recorders
    /\ UNCHANGED <<detectedEmotion, probabilities, isLoading, error, audioData,
                   fileName, isPlaying, volume, isMuted, emotionHistory,
                   wavesurfer, mediaRecorder, loadingIndicator, errorDisplay,
                   resultsContainer, playPauseButton, muteButton, fetches, issued,
                   gumPending, starts, players, graphs, mediaEvent, lastToast,
                   resolved>>

\* toggleRealTimeMode, lines 260-266.
toggleRealTimeMode ==
    IF isRealTimeMode THEN stopRealTimeDetection ELSE startRealTimeDetection

\* startRealTimeDetection, lines 272-276: the getUserMedia promise resolves.
getUserMediaGranted ==
    /\ gumPending > 0
    /\ gumPending' = gumPending - 1
    /\ recorders' = Append(recorders, NewRecorder)
    /\ mediaRecorder' = Len(recorders) + 1
    /\ UNCHANGED <<detectedEmotion, probabilities, isLoading, error, audioData,
                   fileName, isPlaying, volume, isMuted, emotionHistory,
                   isRealTimeMode, wavesurfer, dom, fetches, issued, starts,
                   players, graphs, mediaEvent, lastToast, resolved>>

\* startRealTimeDetection, lines 277-280: the getUserMedia promise rejects.
getUserMediaDenied ==
    /\ gumPending > 0
    /\ gumPending' = gumPending - 1
    /\ lastToast' = "error: Unable to access microphone"
    /\ UNCHANGED <<program, dom, fetches, issued, starts, recorders, players,
                   graphs, mediaEvent, resolved>>

\* A chunk handler that skips the event while an earlier chunk request is
\* still in flight.
handleRealTimeAudioData_OneAtATime(i, last) ==
    /\ i \in DOMAIN recorders
    /\ IF last THEN recorders[i].flush ELSE recorders[i].state = "recording"
    /\ issued < MaxRequests
    /\ {r \in fetches : r.origin = "capture-chunk"} = {}
    /\ recorders' = IF last THEN [recorders EXCEPT ![i].flush = FALSE] ELSE recorders
    /\ issued' = issued + 1
    /\ fetches' = fetches \cup
          {[seq |-> issued + 1, origin |-> "capture-chunk", file |-> NoFile]}
    /\ UNCHANGED <<program, dom, gumPending, starts, players, graphs, mediaEvent,
                   lastToast, resolved>>

\* handleRealTimeAudioData, lines 291-300: up to the fetch call.  The event is
\* a timeslice chunk of a recording recorder, or the last chunk queued by
\* stop().
handleRealTimeAudioData(i, last) ==
    /\ i \in DOMAIN recorders
    /\ IF last THEN recorders[i].flush ELSE recorders[i].state = "recording"
    /\ issued < MaxRequests
    /\ recorders' = IF last THEN [recorders EXCEPT ![i].flush = FALSE] ELSE recorders
    /\ issued' = issued + 1
    /\ fetches' = fetches \cup
          {[seq |-> issued + 1, origin |-> "capture-chunk", file |-> NoFile]}
    /\ UNCHANGED <<program, dom, gumPending, starts, players, graphs, mediaEvent,
                   lastToast, resolved>>

\* handleRealTimeAudioData, lines 311-313: the catch block (console.error).
chunkCatch(r) ==
    /\ fetches' = fetches \ {r}
    /\ resolved' = Append(resolved, Settled(r, FALSE, NullObj))
    /\ UNCHANGED <<program, dom, issued, gumPending, starts, recorders, players,
                   graphs, mediaEvent, lastToast>>

\* A chunk handler that ends like the upload handler, clearing isLoading
\* before it refreshes the page.
chunkApply_ClearsLoading(r, data) ==
    /\ detectedEmotion' = data.emotion
    /\ probabilities' = data.probabilities
    /\ emotionHistory' = updateEmotionHistory(emotionHistory, data.emotion)
    /\ isLoading' = FALSE
    /\ updateUI(FALSE, error, audioData, data.emotion, data.probabilities,
                emotionHistory')
    /\ fetches' = fetches \ {r}
    /\ resolved' = Append(resolved, Settled(r, TRUE, data))
    /\ UNCHANGED <<error, audioData, fileName, isPlaying, volume,
                   isMuted, isRealTimeMode, mediaRecorder, playPauseButton,
                   muteButton, realTimeButton, issued, gumPending, starts,
                   recorders, lastToast>>

\* A chunk handler that ignores a response arriving after real-time mode was
\* stopped.
chunkApply_DropsWhenStopped(r, data) ==
    IF isRealTimeMode
    THEN /\ detectedEmotion' = data.emotion
         /\ probabilities' = data.probabilities
         /\ emotionHistory' = updateEmotionHistory(emotionHistory, data.emotion)
         /\ updateUI(isLoading, error, audioData, data.emotion, data.probabilities,
                     emotionHistory')
         /\ fetches' = fetches \ {r}
         /\ resolved' = Append(resolved, Settled(r, TRUE, data))
         /\ UNCHANGED <<isLoading, error, audioData, fileName, isPlaying, volume,
                        isMuted, isRealTimeMode, mediaRecorder, playPauseButton,
                        muteButton, realTimeButton, issued, gumPending, starts,
                        recorders, lastToast>>
    ELSE /\ fetches' = fetches \ {r}
         /\ resolved' = Append(resolved, Settled(r, TRUE, data))
         /\ UNCHANGED <<program, dom, issued, gumPending, starts, recorders,
                        players, graphs, mediaEvent, lastToast>>

\* A chunk handler that stores the emotion and forgets the probabilities.
chunkApply_EmotionOnly(r, data) ==
    /\ detectedEmotion' = data.emotion
    /\ emotionHistory' = updateEmotionHistory(emotionHistory, data.emotion)
    /\ updateUI(isLoading, error, audioData, data.emotion, probabilities,
                emotionHistory')
    /\ fetches' = fetches \ {r}
    /\ resolved' = Append(resolved, Settled(r, TRUE, data))
    /\ UNCHANGED <<probabilities, isLoading, error, audioData, fileName, isPlaying,
                   volume, isMuted, isRealTimeMode, mediaRecorder, playPauseButton,
                   muteButton, realTimeButton, issued, gumPending, starts,
                   recorders, lastToast>>

\* handleRealTimeAudioData, lines 306-310: the body of an ok response is
\* stored, the history grows and the page is refreshed.
chunkApply(r, data) ==
    /\ detectedEmotion' = data.emotion
    /\ probabilities' = data.probabilities
    /\ emotionHistory' = updateEmotionHistory(emotionHistory, data.emotion)
    /\ updateUI(isLoading, error, audioData, data.emotion, data.probabilities,
                emotionHistory')
    /\ fetches' = fetches \ {r}
    /\ resolved' = Append(resolved, Settled(r, TRUE, data))
    /\ UNCHANGED <<isLoading, error, audioData, fileName, isPlaying, volume,
                   isMuted, isRealTimeMode, mediaRecorder, playPauseButton,
                   muteButton, realTimeButton, issued, gumPending, starts,
                   recorders, lastToast>>

\* handleRealTimeAudioData, lines 296-313: the request of a chunk settles.
chunkSettles(r, outcome, data) ==
    /\ r \in InFlight("capture-chunk")
    /\ CASE outcome \in {"rejected", "not ok"} -> chunkCatch(r)
         [] outcome = "ok" -> chunkApply(r, data)

\* ---------------------------------------------------------- playback path
\* togglePlayPause, lines 236-242.
togglePlayPause ==
    IF wavesurfer # NullObj
    THEN /\ wavesurfer' = [wavesurfer EXCEPT !.playing = ~@]
         /\ mediaEvent' = IF wavesurfer.playing THEN "pause" ELSE "play"
         /\ isPlaying' = ~isPlaying
         /\ playPauseButton' = IF ~isPlaying THEN "Pause" ELSE "Play"
         /\ UNCHANGED <<detectedEmotion, probabilities, isLoading, error,
                        audioData, fileName, volume, isMuted, emotionHistory,
                        isRealTimeMode, mediaRecorder, loadingIndicator,
                        errorDisplay, resultsContainer, muteButton, realTimeButton,
                        fetches, issued, gumPending, starts, recorders, players,
                        graphs, lastToast, resolved>>
    ELSE UNCHANGED vars

\* The 'play' and 'pause' listeners registered at lines 132-133.
mediaEventFires ==
    /\ mediaEvent # "none"
    /\ isPlaying' = (mediaEvent = "play")
    /\ mediaEvent' = "none"
    /\ UNCHANGED <<detectedEmotion, probabilities, isLoading, error, audioData,
                   fileName, volume, isMuted, emotionHistory, isRealTimeMode,
                   wavesurfer, mediaRecorder, dom, fetches, issued, gumPending,
                   starts, recorders, players, graphs, lastToast, resolved>>

\* handleVolumeChange, lines 244-249.
handleVolumeChange(value) ==
    /\ volume' = value
    /\ wavesurfer' = IF wavesurfer # NullObj
                     THEN [wavesurfer EXCEPT !.volume = value]
                     ELSE wavesurfer
    /\ UNCHANGED <<detectedEmotion, probabilities, isLoading, error, audioData,
                   fileName, isPlaying, isMuted, emotionHistory, isRealTimeMode,
                   mediaRecorder, dom, platform, resolved>>

\* toggleMute, lines 251-257.
toggleMute ==
    /\ isMuted' = ~isMuted
    /\ wavesurfer' = IF wavesurfer # NullObj
                     THEN [wavesurfer EXCEPT !.muted = ~isMuted]
                     ELSE wavesurfer
    /\ muteButton' = IF ~isMuted THEN "Unmute" ELSE "Mute"
    /\ UNCHANGED <<detectedEmotion, probabilities, isLoading, error, audioData,
                   fileName, isPlaying, volume, emotionHistory, isRealTimeMode,
                   mediaRecorder, loadingIndicator, errorDisplay, resultsContainer,
                   playPauseButton, realTimeButton, platform, resolved>>

\* ------------------------------------------------------------- event loop
Outcomes == {"rejected", "not ok", "ok"}

Next ==
    \/ \E file \in Files : handleFileUpload(file)
    \/ \E r \in fetches, outcome \in Outcomes, data \in Responses :
          uploadSettles(r, outcome, data)
    \/ toggleRealTimeMode
    \/ getUserMediaGranted
    \/ getUserMediaDenied
    \/ \E i \in DOMAIN recorders, last \in BOOLEAN : handleRealTimeAudioData(i, last)
    \/ \E r \in fetches, outcome \in Outcomes, data \in Responses :
          chunkSettles(r, outcome, data)
    \/ togglePlayPause
    \/ mediaEventFires
    \/ \E value \in Volumes : handleVolumeChange(value)
    \/ toggleMute

\* The whole event loop.
Spec == Init /\ [][Next]_vars

\* The event loop without the playback controls, which read and write only
\* isPlaying, volume, isMuted, the WaveSurfer instance, the two playback
\* buttons and the queued media event.
SessionNext ==
    \/ \E file \in Files : handleFileUpload(file)
    \/ \E r \in fetches, outcome \in Outcomes, data \in Responses :
          uploadSettles(r, outcome, data)
    \/ toggleRealTimeMode
    \/ getUserMediaGranted
    \/ getUserMediaDenied
    \/ \E i \in DOMAIN recorders, last \in BOOLEAN : handleRealTimeAudioData(i, last)
    \/ \E r \in fetches, outcome \in Outcomes, data \in Responses :
          chunkSettles(r, outcome, data)

SessionSpec == Init /\ [][SessionNext]_vars

\* ------------------------------------------------------------- properties
\* Positions in resolved of the requests that settled successfully.
Successes == {i \in DOMAIN resolved : resolved[i].ok}

\* The successful settlement of the request issued last among those settled.
LatestIssued == CHOOSE i \in Successes : \A j \in Successes : resolved[j].seq <= resolved[i].seq

\* The emotions of a set of settlements, by increasing issue sequence number.
RECURSIVE InIssueOrder(_)
InIssueOrder(S) ==
    IF S = {} THEN <<>>
    ELSE LET first == CHOOSE i \in S : \A j \in S : resolved[i].seq <= resolved[j].seq
         IN <<resolved[first].data.emotion>> \o InIssueOrder(S \ {first})

Recording == {i \in DOMAIN recorders : recorders[i].state = "recording"}

\* C1: the current result is that of the successfully resolved request with the
\* highest issue sequence number, whatever the order of arrival.
C1_CurrentIsLatestIssued ==
    Successes # {} =>
        /\ detectedEmotion = resolved[LatestIssued].data.emotion
        /\ probabilities = resolved[LatestIssued].data.probabilities

\* C2: the entries of emotionHistory are in the order their requests were issued.
C2_HistoryInIssueOrder ==
    [i \in DOMAIN emotionHistory |-> emotionHistory[i].emotion] = InIssueOrder(Successes)

\* C3: emotionHistory has one entry per successful request, and every step
\* either leaves it as it is (no new success) or appends one entry (one new
\* success); nothing else adds, removes or changes an entry.
C3_HistoryAppendOnly ==
    /\ [](Len(emotionHistory) = Cardinality(Successes))
    /\ [][\/ /\ emotionHistory' = emotionHistory
             /\ Cardinality(Successes') = Cardinality(Successes)
          \/ /\ Len(emotionHistory') = Len(emotionHistory) + 1
             /\ SubSeq(emotionHistory', 1, Len(emotionHistory)) = emotionHistory
             /\ Cardinality(Successes') = Cardinality(Successes) + 1]_vars

\* C3 witness: one request succeeded and one failed, real-time mode was
\* started and stopped, and the mute control was used.
C3_Witness ==
    /\ Len(emotionHistory) = 1
    /\ Len(resolved) = 2
    /\ isMuted
    /\ recorders # <<>>
    /\ ~isRealTimeMode

\* C4: isLoading is true exactly while an upload request is in flight.
C4_LoadingIffUploadInFlight ==
    isLoading <=> (InFlight("upload") # {})

\* C5: a step that issues or settles a chunk request leaves isLoading and the
\* loading indicator as they were.
C5_ChunkLeavesLoading ==
    [][InFlight("capture-chunk")' # InFlight("capture-chunk") =>
          (isLoading' = isLoading /\ loadingIndicator' = loadingIndicator)]_vars

\* C5 witness: an upload is in flight and loading is shown after the response
\* of a chunk was applied with real-time mode already stopped (no upload has
\* succeeded, so the history entry is the chunk's).
C5_Witness ==
    /\ isLoading
    /\ loadingIndicator = "block"
    /\ Len(emotionHistory) = 1
    /\ audioData = NullObj
    /\ InFlight("capture-chunk") = {}
    /\ ~isRealTimeMode

\* C6: at most one recorder is recording and at most one device request is
\* outstanding.
C6_OneCaptureSession ==
    /\ Cardinality(Recording) <= 1
    /\ gumPending <= 1

\* C7: while real-time mode is off no recorder records and no captured stream
\* is held.
C7_NoSessionWhenModeOff ==
    ~isRealTimeMode =>
        \A i \in DOMAIN recorders :
            recorders[i].state # "recording" /\ ~recorders[i].streamLive

\* C8: stop() is invoked at most once on each recorder.
C8_StopAtMostOnce ==
    \A i \in DOMAIN recorders : recorders[i].stops <= 1

\* C9: the step in which the device request fails leaves real-time mode off,
\* no recorder recording, and the failure reported.
C9_DenialReturnsToIdle ==
    [][(gumPending' = gumPending - 1 /\ recorders' = recorders) =>
          /\ ~isRealTimeMode'
          /\ Recording' = {}
          /\ lastToast' = "error: Unable to access microphone"]_vars

\* C10: a chunk request is issued only while real-time mode is on, and never
\* for the chunk a stopped recorder was assembling.
C10_NoChunkAfterStop ==
    [][InFlight("capture-chunk")' \ InFlight("capture-chunk") # {} =>
          (isRealTimeMode /\ recorders' = recorders)]_vars

\* The settlement that happened in this step, if one did.
JustSettled == resolved'[Len(resolved')]

\* C11: whatever requests are in flight or have failed, the chunk-ready event of
\* a recording recorder issues its request (as long as the run's request
\* budget lasts).
C11_ChunksNeverBlocked ==
    \A i \in Recording :
        issued < MaxRequests => ENABLED handleRealTimeAudioData(i, FALSE)

\* C11 witness: two chunk requests are in flight at once.
C11_Witness ==
    /\ Cardinality(InFlight("capture-chunk")) = 2
    /\ Recording # {}

\* C12: stopping real-time mode leaves the requests in flight as they are, and
\* a chunk response that arrives successfully while the mode is off appends
\* exactly one entry, with its emotion, to emotionHistory.
C12_ChunkAfterStopAppends ==
    [][/\ (isRealTimeMode /\ ~isRealTimeMode') => fetches' = fetches
       /\ (/\ ~isRealTimeMode
           /\ InFlight("capture-chunk")' # InFlight("capture-chunk")
           /\ Len(resolved') = Len(resolved) + 1
           /\ JustSettled.ok)
          => /\ Len(emotionHistory') = Len(emotionHistory) + 1
             /\ SubSeq(emotionHistory', 1, Len(emotionHistory)) = emotionHistory
             /\ emotionHistory'[Len(emotionHistory')].emotion = JustSettled.data.emotion
             /\ ~isRealTimeMode']_vars

\* C12 witness: real-time mode was started once and stopped; the chunk sent
\* before the stop (request 1) settled successfully after the chunk flushed by
\* the stop (request 2) had settled, and its entry is in the history.
C12_Witness ==
    /\ ~isRealTimeMode
    /\ starts = 1
    /\ Len(recorders) = 1
    /\ recorders[1].state = "inactive"
    /\ ~recorders[1].flush
    /\ Len(resolved) = 2
    /\ resolved[1].seq = 2
    /\ resolved[2].seq = 1
    /\ resolved[2].ok
    /\ resolved[2].origin = "capture-chunk"
    /\ emotionHistory # <<>>
    /\ emotionHistory[Len(emotionHistory)].emotion = resolved[2].data.emotion

\* The messages of the errors thrown at lines 74 and 80.
FailureMessages == {"Failed to fetch", "Failed to analyze audio"}

\* C13: the step in which a request fails, upload or chunk, leaves the failure
\* message in error.
C13_FailureRecorded ==
    [][(Len(resolved') = Len(resolved) + 1 /\ ~JustSettled.ok) =>
          error' \in FailureMessages]_vars

\* C14: selecting a file that is not audio, or no file, issues no request and
\* leaves isLoading, error, detectedEmotion, probabilities, audioData, fileName
\* and emotionHistory as they were.
C14_NonAudioRejected ==
    [][\A file \in OtherFiles \cup {NoFile} :
          handleFileUpload(file) =>
              /\ fetches' = fetches
              /\ issued' = issued
              /\ UNCHANGED <<isLoading, error, detectedEmotion, probabilities,
                             audioData, fileName, emotionHistory>>]_vars

\* C14 witness: a result is on display, no request is in flight, and the file
\* selected last was rejected.
C14_Witness ==
    /\ lastToast = "error: Please upload an audio file"
    /\ detectedEmotion # Null
    /\ audioData # NullObj
    /\ fetches = {}
    /\ ~isLoading

\* C15: while an instance is loaded, the only analyser graph alive is the one
\* built on it; before any load there is none.
C15_OnePlaybackGraph ==
    graphs = IF wavesurfer = NullObj THEN {} ELSE {wavesurfer.id}

\* A chunk request settled successfully in this step.
ChunkApplied ==
    /\ InFlight("capture-chunk")' # InFlight("capture-chunk")
    /\ Len(resolved') = Len(resolved) + 1
    /\ JustSettled.ok

\* C16: applying a chunk response while a file is loaded leaves the playback
\* instance, its playing state, its volume and its mute setting as they were.
C16_ChunkLeavesPlayback ==
    [][(ChunkApplied /\ wavesurfer # NullObj) => wavesurfer' = wavesurfer]_vars

\* The successful settlement that arrived last.
LastArrived == CHOOSE i \in Successes : \A j \in Successes : j <= i

\* C17: detectedEmotion and probabilities, and the result the page shows, are
\* both null or both those of one response (the one applied last).
C17_ResultNeverTorn ==
    IF Successes = {}
    THEN /\ detectedEmotion = Null
         /\ probabilities = NullObj
         /\ resultsContainer = NullObj
    ELSE /\ detectedEmotion = resolved[LastArrived].data.emotion
         /\ probabilities = resolved[LastArrived].data.probabilities
         /\ resultsContainer.emotion = resolved[LastArrived].data.emotion
         /\ resultsContainer.probabilities = resolved[LastArrived].data.probabilities

\* C17 witness: an upload response and a chunk response with different bodies
\* were applied, the chunk's last.
C17_Witness ==
    /\ Len(resolved) = 2
    /\ resolved[1].ok /\ resolved[1].origin = "upload"
    /\ resolved[2].ok /\ resolved[2].origin = "capture-chunk"
    /\ resolved[1].data # resolved[2].data
    /\ detectedEmotion = resolved[2].data.emotion

\* C18: while an instance exists, isPlaying, volume and isMuted equal the
\* instance's playing state, volume and mute setting.
C18_FlagsMirrorPlayer ==
    wavesurfer # NullObj =>
        /\ isPlaying = wavesurfer.playing
        /\ volume = wavesurfer.volume
        /\ isMuted = wavesurfer.muted

\* C19: the step in which an upload fails leaves detectedEmotion, probabilities,
\* audioData and emotionHistory as they were, puts the failure message in
\* error and clears isLoading.
C19_FailedUploadKeepsResult ==
    [][(/\ InFlight("upload")' # InFlight("upload")
        /\ Len(resolved') = Len(resolved) + 1
        /\ ~JustSettled.ok)
       => /\ UNCHANGED <<detectedEmotion, probabilities, audioData, emotionHistory>>
          /\ error' \in FailureMessages
          /\ errorDisplay' = error'
          /\ ~isLoading']_vars

\* C19 witness: an upload succeeded, then a second upload failed; the result of
\* the first is still the current one and the error is shown.
C19_Witness ==
    /\ Len(resolved) = 2
    /\ resolved[1].ok /\ resolved[1].origin = "upload"
    /\ ~resolved[2].ok /\ resolved[2].origin = "upload"
    /\ detectedEmotion = resolved[1].data.emotion
    /\ audioData # NullObj
    /\ error \in FailureMessages
    /\ ~isLoading

\* Positions in resolved of the uploads that have settled.
UploadsSettled == {i \in DOMAIN resolved : resolved[i].origin = "upload"}

\* The settlement of the upload started last among those settled.
LatestUpload ==
    CHOOSE i \in UploadsSettled : \A j \in UploadsSettled : resolved[j].seq <= resolved[i].seq

\* C20: when no upload is in flight and the upload started last succeeded,
\* error is null.
C20_ErrorNotStale ==
    (/\ InFlight("upload") = {}
     /\ UploadsSettled # {}
     /\ resolved[LatestUpload].ok)
    => error = Null
====
